---------------------------- MODULE Spec2Model ----------------------------
(***************************************************************************)
(* A model of the `classic` library: the Minecraft Classic protocol        *)
(* (version 7) with CPE negotiation.  Two endpoints are modelled:          *)
(*   srv : a ClientConnectionHandler (src/classic/server.py), the server   *)
(*         endpoint of one connection;                                     *)
(*   cli : a ServerConnectionHandler (src/classic/client.py), the client   *)
(*         endpoint of one connection.                                     *)
(* Streams are sequences of bytes (0..255).  A string of the program is a  *)
(* sequence of character codes.  Optional values are sequences of length   *)
(* 0 (None) or 1.  A handler is 0 (None) or n >= 1, the n-th object the    *)
(* handler factory returned.                                               *)
(***************************************************************************)
EXTENDS Integers, Sequences, FiniteSets, TLC

\* srv, cli : the two sessions; ev : what the last step was; nframes, ncalls :
\* the frames the peer sent and the calls the application made so far;
\* mode : which system the behaviour is about; sent : the calls the
\* application made, in order
VARIABLES srv, cli, ev, nframes, ncalls, mode, sent

vars == <<srv, cli, ev, nframes, ncalls, mode, sent>>

-----------------------------------------------------------------------------
(* Bounds of the model *)

\* the number of frames (or stream ends) an adversarial peer sends
MaxFrames == 3
\* the number of calls the application makes on an endpoint
MaxCalls == 1
\* the number of calls the application makes on a linked pair of endpoints
MaxLinkCalls == 2

-----------------------------------------------------------------------------
(* Opcodes, src/classic/connection.py:203-230 *)

OPCODE_HELLO == 0
OPCODE_HEARTBEAT == 1
OPCODE_START_LEVEL == 2
OPCODE_LEVEL_CHUNK == 3
OPCODE_FINISH_LEVEL == 4
OPCODE_CHANGE_BLOCK == 5
OPCODE_SET_BLOCK == 6
OPCODE_ADD_ENTITY == 7
OPCODE_ABSOLUTE_LOCATION == 8
OPCODE_RELATIVE_LOCATION == 9
OPCODE_RELATIVE_POSITION == 10
OPCODE_RELATIVE_ORIENTATION == 11
OPCODE_REMOVE_ENTITY == 12
OPCODE_MESSAGE == 13
OPCODE_DISCONNECT == 14
OPCODE_EXT_INFO == 16
OPCODE_EXT_ENTRY == 17
OPCODE_HOLD_THIS == 20
OPCODE_ADD_PLAYER == 22
OPCODE_REMOVE_PLAYER == 24
OPCODE_ADD_ENTITY_EXT == 33
OPCODE_SET_BLOCK_PERMISSION == 28
OPCODE_CLICK == 34

\* the protocol version both hello paths use
PROTOCOL_VERSION == 7
\* the trailing hello byte that announces CPE support (66 = 0x42)
CPE_MAGIC == 66
\* the width of a string on the wire
STRING_SIZE == 64
\* the size of a level chunk's data field
CHUNK_SIZE == 1024

-----------------------------------------------------------------------------
(* Strings of the program, as character codes *)

\* class Extension(NamedTuple): name, version = 1
Extension(name, version) == [name |-> name, version |-> version]

\* "ExtPlayerList"
ExtPlayerList2 ==
    Extension(<<69,120,116,80,108,97,121,101,114,76,105,115,116>>, 2)
\* "ExtEntityPositions"
EntityPositions ==
    Extension(<<69,120,116,69,110,116,105,116,121,80,111,115,105,116,105,111,110,115>>, 1)
\* "HeldBlock"
HeldBlock ==
    Extension(<<72,101,108,100,66,108,111,99,107>>, 1)
\* "FullCP437"
FullCP437 ==
    Extension(<<70,117,108,108,67,80,52,51,55>>, 1)
\* "MessageTypes"
MessageTypes ==
    Extension(<<77,101,115,115,97,103,101,84,121,112,101,115>>, 1)
\* "LongerMessages"
LongerMessages ==
    Extension(<<76,111,110,103,101,114,77,101,115,115,97,103,101,115>>, 1)
\* "TextColors"
TextColors ==
    Extension(<<84,101,120,116,67,111,108,111,114,115>>, 1)
\* "BlockPermissions"
BlockPermissions ==
    Extension(<<66,108,111,99,107,80,101,114,109,105,115,115,105,111,110,115>>, 1)
\* "PlayerClick"
PlayerClick ==
    Extension(<<80,108,97,121,101,114,67,108,105,99,107>>, 1)

\* "(no vendor)" and "(unknown)"
NO_VENDOR == <<40,110,111,32,118,101,110,100,111,114,41>>
UNKNOWN_VENDOR == <<40,117,110,107,110,111,119,110,41>>

\* the package version string ("0"); the module that sets it is not in src/
PackageVersion == <<48>>

\* "ClientConnectionHandler/" and "ServerConnectionHandler/" + version
agent(role) ==
    IF role = "server"
    THEN <<67,108,105,101,110,116,67,111,110,110,101,99,116,105,111,110,
           72,97,110,100,108,101,114,47>> \o PackageVersion
    ELSE <<83,101,114,118,101,114,67,111,110,110,101,99,116,105,111,110,
           72,97,110,100,108,101,114,47>> \o PackageVersion

\* "Client hello more than once"
MsgHelloTwice ==
    <<67,108,105,101,110,116,32,104,101,108,108,111,32,109,111,114,101,32,
      116,104,97,110,32,111,110,99,101>>

\* the decimal digits of a byte value, as str(version) gives them
Digits(n) ==
    IF n < 10 THEN <<48 + n>>
    ELSE IF n < 100 THEN <<48 + (n \div 10), 48 + (n % 10)>>
    ELSE <<48 + (n \div 100), 48 + ((n \div 10) % 10), 48 + (n % 10)>>

\* f"Unsupported protocol version {version}"
MsgBadVersion(version) ==
    <<85,110,115,117,112,112,111,114,116,101,100,32,112,114,111,116,111,99,
      111,108,32,118,101,114,115,105,111,110,32>> \o Digits(version)

-----------------------------------------------------------------------------
(* Optional values and plain helpers *)

None == <<>>
Some(x) == <<x>>

Min(a, b) == IF a < b THEN a ELSE b

\* n copies of byte b
Fill(n, b) == [i \in 1..n |-> b]

\* seq[pos:pos + size] of Python, pos counted from 0
Slice(seq, pos, size) == SubSeq(seq, pos + 1, Min(pos + size, Len(seq)))

\* chunked(seq, size): the slices at 0, size, 2*size, ... below len(seq)
chunked(seq, size) ==
    [k \in 1..((Len(seq) + size - 1) \div size) |-> Slice(seq, (k - 1) * size, size)]

-----------------------------------------------------------------------------
(* Integers on the wire: big-endian, fixed width *)

Pow2(n) == 2 ^ n

\* the w big-endian bytes of v, 0 <= v < 2^(8w)
BE(v, w) == [i \in 1..w |-> (v \div Pow2(8 * (w - i))) % 256]

RECURSIVE FromBE(_)
\* int.from_bytes(data, 'big')
FromBE(data) ==
    IF data = <<>> THEN 0
    ELSE FromBE(SubSeq(data, 1, Len(data) - 1)) * 256 + data[Len(data)]

\* The model's integers are those of the checker, below 2^31: an unsigned
\* 32-bit field holds a value below 2^31 here, and no operator computes 2^31.

\* whether v fits an unsigned (a signed) field of `bits` bits
InUnsigned(v, bits) == 0 <= v /\ (bits >= 31 \/ v < Pow2(bits))
InSigned(v, bits) ==
    bits >= 32 \/ (-Pow2(bits - 1) <= v /\ v < Pow2(bits - 1))

\* the w big-endian bytes of a signed v in two's complement: those of v, or
\* for v < 0 the complement of those of -v - 1
SignedBE(v, w) ==
    IF v >= 0 THEN BE(v, w)
    ELSE [i \in 1..w |-> 255 - BE(-v - 1, w)[i]]

\* int.from_bytes(data, 'big', signed=True)
FromSignedBE(data) ==
    IF data[1] < 128 THEN FromBE(data)
    ELSE -FromBE([i \in 1..Len(data) |-> 255 - data[i]]) - 1

-----------------------------------------------------------------------------
(* Text, src/classic/util.py *)

\* the bytes bytes.rstrip() removes: \t \n \v \f \r and space
Whitespace == {9, 10, 11, 12, 13, 32}

SetMax(S) == CHOOSE x \in S : \A y \in S : y <= x

\* data.rstrip()
rstrip(data) ==
    LET keep == {i \in 1..Len(data) : data[i] \notin Whitespace}
    IN  IF keep = {} THEN <<>> ELSE SubSeq(data, 1, SetMax(keep))

\* data.ljust(64): right-padded with spaces, never cut
ljust(data, width) ==
    IF Len(data) >= width THEN data ELSE data \o Fill(width - Len(data), 32)

\* The cp437 code page above 127 (every byte decodes), listed for the bytes
\* the model's inputs use: 0x82 is U+00E9 and 0xE1 is U+00DF.
Cp437Pairs == {<<130, 233>>, <<225, 223>>}

\* whether str(data, encoding) succeeds
Decodable(data, encoding) ==
    \A i \in 1..Len(data) :
        \/ data[i] < 128
        \/ encoding = "cp437"

DecodeByte(b, encoding) ==
    IF b < 128 THEN b ELSE (CHOOSE p \in Cp437Pairs : p[1] = b)[2]

\* whether bytes(data, encoding) succeeds
Encodable(data, encoding) ==
    \A i \in 1..Len(data) :
        \/ data[i] < 128
        \/ encoding = "cp437" /\ \E p \in Cp437Pairs : p[2] = data[i]

EncodeChar(c, encoding) ==
    IF c < 128 THEN c ELSE (CHOOSE p \in Cp437Pairs : p[2] = c)[1]

\* decode_classic_string(data, encoding), where Decodable
decode_classic_string(data, encoding) ==
    LET d == rstrip(data) IN [i \in 1..Len(d) |-> DecodeByte(d[i], encoding)]

\* encode_classic_string(data, encoding), where it raises nothing
encode_classic_string(data, encoding) ==
    ljust([i \in 1..Len(data) |-> EncodeChar(data[i], encoding)], STRING_SIZE)

\* the exception encode_classic_string raises, or "none"
EncodeError(data, encoding) ==
    IF Len(data) > STRING_SIZE THEN "ValueError"
    ELSE IF ~Encodable(data, encoding) THEN "UnicodeEncodeError"
    ELSE "none"

-----------------------------------------------------------------------------
(* gzip, as server.py:78 and client.py:145 use it.  A gzip member is a     *)
(* 10-byte header, a deflate stream and an 8-byte trailer (a checksum and  *)
(* the length, little-endian).  The deflate stream is modelled as stored   *)
(* blocks and the checksum as the byte sum: decompress accepts exactly     *)
(* what compress makes, and tells a cut stream from a malformed one.       *)

GzipHeader == <<31, 139, 8, 0, 0, 0, 0, 0, 4, 255>>

\* little-endian bytes
LE(v, w) == [i \in 1..w |-> (v \div Pow2(8 * (i - 1))) % 256]

RECURSIVE FromLE(_)
FromLE(data) ==
    IF data = <<>> THEN 0 ELSE data[1] + 256 * FromLE(Tail(data))

RECURSIVE SumRange(_, _, _)
\* the sum of data[lo..hi], by halves
SumRange(data, lo, hi) ==
    IF lo > hi THEN 0
    ELSE IF lo = hi THEN data[lo]
    ELSE LET mid == (lo + hi) \div 2
         IN  SumRange(data, lo, mid) + SumRange(data, mid + 1, hi)

Checksum(data) == SumRange(data, 1, Len(data))

\* one final stored block: 1, LEN, NLEN, data (LEN < 65536)
StoredBlock(data) ==
    <<1>> \o LE(Len(data), 2) \o LE(65535 - Len(data), 2) \o data

\* gzip.compress(data, 1)
gzip_compress(data) ==
    GzipHeader \o StoredBlock(data) \o LE(Checksum(data), 4) \o LE(Len(data), 4)

\* what gzip.decompress(data) does: "ok", "EOFError" (the stream ends before
\* its end marker) or "BadGzipFile" (OSError: not a gzip stream)
gzip_status(data) ==
    IF data = <<>> THEN "ok"
    ELSE IF SubSeq(data, 1, Min(Len(data), 2)) # SubSeq(GzipHeader, 1, Min(Len(data), 2))
    THEN "BadGzipFile"
    ELSE IF Len(data) < 15 THEN "EOFError"
    ELSE LET n == FromLE(SubSeq(data, 12, 13))
             body == SubSeq(data, 16, 15 + n)
         IN  IF data[11] # 1 \/ FromLE(SubSeq(data, 14, 15)) # 65535 - n
             THEN "BadGzipFile"
             ELSE IF Len(data) < 15 + n + 8 THEN "EOFError"
             ELSE IF \/ FromLE(SubSeq(data, 16 + n, 19 + n)) # Checksum(body)
                     \/ FromLE(SubSeq(data, 20 + n, 23 + n)) # n
                     \/ Len(data) > 23 + n
             THEN "BadGzipFile"
             ELSE "ok"

\* gzip.decompress(data), where gzip_status is "ok"
gzip_decompress(data) ==
    IF data = <<>> THEN <<>>
    ELSE SubSeq(data, 16, 15 + FromLE(SubSeq(data, 12, 13)))

-----------------------------------------------------------------------------
(* BaseConnection, src/classic/connection.py.  A session is a record; the  *)
(* field exc is "none" between steps and names the exception in flight     *)
(* while a handler or an operation runs: every statement below leaves the  *)
(* session as it is once an exception is raised.  The field locals holds   *)
(* the local variables of the decoder that runs, and is empty between      *)
(* steps.                                                                  *)

\* no local variable
NoLocals == [n \in {} |-> 0]

\* BaseConnection.__init__ (39-59): the fields both roles share, with the
\* stream ends (reader: what arrived and is not read yet; writer: every byte
\* written), the state of handle_forever (loop) and the record of what the
\* handler factory and the handlers were called with.
BaseInit ==
    [ alive |-> TRUE,
      vendor |-> NO_VENDOR,
      extensions |-> {},
      handler |-> 0,
      current_opcode |-> None,
      last_opcode |-> None,
      text_encoding |-> "ascii",
      location_struct |-> "3h2B",
      ext_left |-> 0,
      reader |-> [data |-> <<>>, eof |-> FALSE],
      writer |-> <<>>,
      loop |-> "running",
      exc |-> "none",
      locals |-> NoLocals,
      upcalls |-> <<>>,
      factory_calls |-> 0,
      received |-> 0 ]

Raised(s) == s.exc # "none"
Raise(s, e) == IF Raised(s) THEN s ELSE [s EXCEPT !.exc = e]

\* self.writer.write(buff)
write(s, buff) == IF Raised(s) THEN s ELSE [s EXCEPT !.writer = @ \o buff]

\* reader.readexactly(n): the bytes, where they are there
peek(s, n) == SubSeq(s.reader.data, 1, Min(n, Len(s.reader.data)))

\* reader.readexactly(n): the session after it; IncompleteReadError (an
\* EOFError) when the stream holds fewer than n bytes
readexactly(s, n) ==
    IF Raised(s) THEN s
    ELSE IF Len(s.reader.data) < n
    THEN [s EXCEPT !.reader.data = <<>>, !.exc = "IncompleteReadError"]
    ELSE [s EXCEPT !.reader.data = SubSeq(@, n + 1, Len(@))]

\* the size of Struct("!" + fmt)
StructSize(fmt) ==
    CASE fmt = "3h2B" -> 8
      [] fmt = "3i2B" -> 14
      [] fmt = "3H" -> 6
      [] fmt = "2B" -> 2
      [] fmt = "2H" -> 4
      [] fmt = "3b2B" -> 5
      [] fmt = "3b" -> 3
      [] fmt = "1024s" -> CHUNK_SIZE

\* a local variable of the decoder that runs: the value read under a name
Put(s, name, v) == [s EXCEPT !.locals = (name :> v) @@ @]

\* the statement F, unless an exception is in flight
Do(s, F(_)) == IF Raised(s) THEN s ELSE F(s)

\* name = await self.read_byte() (73-76)
read_byte(s, name) ==
    LET t == readexactly(s, 1)
    IN  IF Raised(t) THEN t ELSE Put(t, name, FromBE(peek(s, 1)))

\* write_byte (78-81): int.to_bytes(x, 1, 'big')
write_byte(s, x) ==
    IF InUnsigned(x, 8) THEN write(s, BE(x, 1)) ELSE Raise(s, "OverflowError")

\* name = await self.read_short() (83-86): signed
read_short(s, name) ==
    LET t == readexactly(s, 2)
    IN  IF Raised(t) THEN t ELSE Put(t, name, FromSignedBE(peek(s, 2)))

\* write_short (88-91): x.to_bytes(2, 'big', signed=True)
write_short(s, x) ==
    IF InSigned(x, 16) THEN write(s, SignedBE(x, 2))
    ELSE Raise(s, "OverflowError")

\* name = await self.read_int() (93-96): unsigned
read_int(s, name) ==
    LET t == readexactly(s, 4)
    IN  IF Raised(t) THEN t ELSE Put(t, name, FromBE(peek(s, 4)))

\* write_int (98-101)
write_int(s, x) ==
    IF InUnsigned(x, 32) THEN write(s, BE(x, 4)) ELSE Raise(s, "OverflowError")

\* name = await self.reader.readexactly(n)
read_raw(s, n, name) ==
    LET t == readexactly(s, n)
    IN  IF Raised(t) THEN t ELSE Put(t, name, peek(s, n))

\* name = await self.read_string() (103-106)
read_string(s, name) ==
    LET t == readexactly(s, STRING_SIZE)
    IN  IF Raised(t) THEN t
        ELSE IF ~Decodable(peek(s, STRING_SIZE), s.text_encoding)
        THEN Raise(t, "UnicodeDecodeError")
        ELSE Put(t, name, decode_classic_string(peek(s, STRING_SIZE), s.text_encoding))

\* write_string (108-110)
write_string(s, x) ==
    IF EncodeError(x, s.text_encoding) # "none"
    THEN Raise(s, EncodeError(x, s.text_encoding))
    ELSE write(s, encode_classic_string(x, s.text_encoding))

\* the width in bytes of one axis under a location format
AxisBytes(fmt) == IF fmt = "3i2B" THEN 4 ELSE 2

\* the (x, y, z, yaw, pitch) a location of w-byte axes holds
unpack_location(d, w) ==
    << FromSignedBE(SubSeq(d, 1, w)),
       FromSignedBE(SubSeq(d, w + 1, 2 * w)),
       FromSignedBE(SubSeq(d, 2 * w + 1, 3 * w)),
       d[3 * w + 1], d[3 * w + 2] >>

\* name = await self.read_location() (112-114), under the current format
read_location(s, name) ==
    LET t == readexactly(s, StructSize(s.location_struct))
    IN  IF Raised(t) THEN t
        ELSE Put(t, name, unpack_location(peek(s, StructSize(s.location_struct)),
                                          AxisBytes(s.location_struct)))

\* write_location (116-118): struct.error when a value does not fit
write_location(s, x, y, z, yaw, pitch) ==
    LET w == AxisBytes(s.location_struct)
    IN  IF /\ \A v \in {x, y, z} : InSigned(v, 8 * w)
           /\ \A v \in {yaw, pitch} : InUnsigned(v, 8)
        THEN write(s, SignedBE(x, w) \o SignedBE(y, w) \o SignedBE(z, w)
                      \o <<yaw, pitch>>)
        ELSE Raise(s, "struct.error")

\* struct "3H": three unsigned shorts
unpack_3H(d) ==
    <<FromBE(SubSeq(d, 1, 2)), FromBE(SubSeq(d, 3, 4)), FromBE(SubSeq(d, 5, 6))>>

\* name = await self.read_position() (120-122), and read_struct("3H")
read_position(s, name) ==
    LET t == readexactly(s, StructSize("3H"))
    IN  IF Raised(t) THEN t ELSE Put(t, name, unpack_3H(peek(s, 6)))

\* write_position (124-126)
write_position(s, x, y, z) ==
    IF \A v \in {x, y, z} : InUnsigned(v, 16)
    THEN write(s, BE(x, 2) \o BE(y, 2) \o BE(z, 2))
    ELSE Raise(s, "struct.error")

-----------------------------------------------------------------------------
(* Upcalls, the handler factory and close *)

\* self.handler.<op>(*args): AttributeError while the handler is None
upcall(s, op, args) ==
    IF Raised(s) THEN s
    ELSE IF s.handler = 0 THEN Raise(s, "AttributeError")
    ELSE [s EXCEPT !.upcalls = Append(@, [h |-> s.handler, op |-> op, args |-> args])]

\* self.handler = self.handler_factory(self): the next handler object
install_handler(s) ==
    IF Raised(s) THEN s
    ELSE [s EXCEPT !.factory_calls = @ + 1, !.handler = s.factory_calls + 1]

\* BaseConnection.close (145-146)
base_close(s) == IF Raised(s) THEN s ELSE [s EXCEPT !.alive = FALSE]

\* ClientConnectionHandler.close (server.py 162-165) and
\* ServerConnectionHandler.close (client.py 78-81), the same code
close(s) ==
    base_close(IF s.handler # 0 THEN upcall(s, "disconnect", <<>>) ELSE s)

-----------------------------------------------------------------------------
(* CPE negotiation *)

\* supported_extensions with the base class's entries left out of the
\* server endpoint's list
supported_extensions_uneven(role) ==
    IF role = "server"
    THEN <<ExtPlayerList2, MessageTypes, HeldBlock, LongerMessages,
           BlockPermissions, PlayerClick>>
    ELSE <<EntityPositions, MessageTypes, HeldBlock, LongerMessages,
           ExtPlayerList2, EntityPositions, FullCP437>>

\* ClientConnectionHandler.supported_extensions (server.py 221-229) and
\* ServerConnectionHandler.supported_extensions (client.py 189-196), each
\* followed by BaseConnection.supported_extensions (184-187), as the tuple
\* __init__ keeps (connection.py 48)
supported_extensions(role) ==
    IF role = "server"
    THEN <<ExtPlayerList2, MessageTypes, HeldBlock, LongerMessages,
           BlockPermissions, PlayerClick, EntityPositions, FullCP437>>
    ELSE <<EntityPositions, MessageTypes, HeldBlock, LongerMessages,
           ExtPlayerList2, EntityPositions, FullCP437>>

RECURSIVE write_ext_entries(_, _, _)
\* the loop of write_extensions (133-136), from the i-th extension on
write_ext_entries(s, exts, i) ==
    IF i > Len(exts) THEN s
    ELSE write_ext_entries(
             write_int(write_string(write_byte(s, OPCODE_EXT_ENTRY), exts[i].name),
                       exts[i].version),
             exts, i + 1)

\* BaseConnection.write_extensions (128-136)
write_extensions(role, s) ==
    LET s1 == write_byte(s, OPCODE_EXT_INFO)
        s2 == write_string(s1, agent(role))
        s3 == write_short(s2, Len(supported_extensions(role)))
    IN  write_ext_entries(s3, supported_extensions(role), 1)

\* BaseConnection.received_extensions (138-143)
base_received_extensions(s) ==
    IF Raised(s) THEN s
    ELSE [s EXCEPT !.location_struct =
                       IF EntityPositions \in s.extensions THEN "3i2B" ELSE @,
                   !.text_encoding =
                       IF FullCP437 \in s.extensions THEN "cp437" ELSE @]

\* ClientConnectionHandler.received_extensions (server.py 216-219) and
\* ServerConnectionHandler.received_extensions (client.py 182-184)
received_extensions(role, s) ==
    IF Raised(s) THEN s
    ELSE IF role = "server"
    THEN install_handler(base_received_extensions([s EXCEPT !.received = @ + 1]))
    ELSE write_extensions(role,
                          base_received_extensions([s EXCEPT !.received = @ + 1]))

\* a decoder that lets an opcode pass
handle_unknown_ignored(s) == s

\* BaseConnection.handle_unknown (148-149)
handle_unknown(s) == close(s)

\* BaseConnection.handle_ext_info (151-153)
handle_ext_info(s) ==
    LET s1 == read_string(s, "vendor")
        s2 == Do(s1, LAMBDA t : [t EXCEPT !.vendor = t.locals.vendor])
        s3 == read_short(s2, "ext_left")
    IN  Do(s3, LAMBDA t : [t EXCEPT !.ext_left = t.locals.ext_left])

\* a decoder of ext-entry that takes the entry whatever the countdown is
handle_ext_entry_unchecked(role, s) ==
    LET s1 == read_string(s, "ext_name")
        s2 == read_int(s1, "version")
        s3 == Do(s2, LAMBDA t :
                  [t EXCEPT !.extensions =
                                @ \cup {Extension(t.locals.ext_name, t.locals.version)},
                            !.ext_left = @ - 1])
    IN  Do(s3, LAMBDA t : IF t.ext_left = 0 THEN received_extensions(role, t) ELSE t)

\* BaseConnection.handle_ext_entry (155-164)
handle_ext_entry(role, s) ==
    LET s1 == read_string(s, "ext_name")
        s2 == read_int(s1, "version")
        s3 == Do(s2, LAMBDA t : IF t.ext_left = 0 THEN close(t) ELSE t)
        s4 == Do(s3, LAMBDA t :
                  [t EXCEPT !.extensions =
                                @ \cup {Extension(t.locals.ext_name, t.locals.version)},
                            !.ext_left = @ - 1])
    IN  Do(s4, LAMBDA t : IF t.ext_left = 0 THEN received_extensions(role, t) ELSE t)

-----------------------------------------------------------------------------
(* ClientConnectionHandler, src/classic/server.py: the server endpoint *)

\* ClientConnectionHandler.__init__ (26-33)
ServerInit ==
    [f \in DOMAIN BaseInit \cup
           {"username", "token", "last_location", "last_held", "partial_message"} |->
        CASE f \in {"username", "token", "last_location", "last_held"} -> None
          [] f = "partial_message" -> <<>>
          [] OTHER -> BaseInit[f]]

\* what `if x:` makes of an optional string: None and "" are false
Truthy(opt) == opt # None /\ opt[1] # <<>>

\* ClientConnectionHandler.kick without its decorator (118-121)
kick_body(s, message) ==
    close(write_string(write_byte(s, OPCODE_DISCONNECT), message))

\* kick (117-121)
kick(s, message) == IF s.alive THEN kick_body(s, message) ELSE s

\* add_entity (44-54); skin is None or a string
add_entity(s, entity_number, name, x, y, z, yaw, pitch, skin) ==
    IF ~s.alive THEN s
    ELSE LET support_plr_list == ExtPlayerList2 \in s.extensions
             opcode == IF support_plr_list THEN OPCODE_ADD_ENTITY_EXT
                       ELSE OPCODE_ADD_ENTITY
             s1 == write_string(write_byte(write_byte(s, opcode), entity_number), name)
             s2 == IF support_plr_list
                   THEN write_string(s1, IF Truthy(skin) THEN skin[1] ELSE name)
                   ELSE s1
         IN  write_location(s2, x, y, z, yaw, pitch)

\* move_entity (56-60)
move_entity(s, entity_number, x, y, z, yaw, pitch) ==
    IF ~s.alive THEN s
    ELSE write_location(
             write_byte(write_byte(s, OPCODE_ABSOLUTE_LOCATION), entity_number),
             x, y, z, yaw, pitch)

\* remove_entity (62-65)
remove_entity(s, entity_number) ==
    IF ~s.alive THEN s
    ELSE write_byte(write_byte(s, OPCODE_REMOVE_ENTITY), entity_number)

\* world_info (67-72); is_operator is 0 or 1
world_info(s, name, message, is_operator) ==
    IF ~s.alive THEN s
    ELSE write_byte(
             write_string(write_string(write_byte(s, OPCODE_HELLO), name), message),
             is_operator)

\* write_struct("1024s", chunk): the chunk, padded with zero bytes
pack_1024s(chunk) ==
    SubSeq(chunk, 1, Min(Len(chunk), CHUNK_SIZE))
        \o Fill(CHUNK_SIZE - Min(Len(chunk), CHUNK_SIZE), 0)

RECURSIVE write_level_chunks(_, _, _)
\* the loop of send_level (79-83), from the i-th chunk on
write_level_chunks(s, chunks, i) ==
    IF i > Len(chunks) THEN s
    ELSE write_level_chunks(
             write_byte(
                 write(write_short(write_byte(s, OPCODE_LEVEL_CHUNK), Len(chunks[i])),
                       pack_1024s(chunks[i])),
                 0),
             chunks, i + 1)

\* a payload without the four bytes of length, which the client endpoint
\* would take for the length and drop
level_payload_bare(data) == data

\* the bytes send_level compresses (77-78): the length on 4 bytes, the data
level_payload(data) == BE(Len(data), 4) \o data

\* send_level (74-85)
send_level(s, x, y, z, data) ==
    IF ~s.alive THEN s
    ELSE LET s1 == write_byte(s, OPCODE_START_LEVEL)
             packed == gzip_compress(level_payload(data))
             s2 == write_level_chunks(s1, chunked(packed, CHUNK_SIZE), 1)
         IN  write_position(write_byte(s2, OPCODE_FINISH_LEVEL), x, y, z)

\* set_block (87-91)
set_block(s, x, y, z, block) ==
    IF ~s.alive THEN s
    ELSE write_byte(write_position(write_byte(s, OPCODE_SET_BLOCK), x, y, z), block)

RECURSIVE write_message_chunks(_, _, _)
\* the loop of send_message (100-103), from the i-th chunk on
write_message_chunks(s, chunks, i) ==
    IF i > Len(chunks) THEN s
    ELSE write_message_chunks(
             write_string(write_byte(write_byte(s, OPCODE_MESSAGE), 0), chunks[i]),
             chunks, i + 1)

\* send_message (93-103); message_type is None or a number
send_message(s, message, message_type) ==
    IF ~s.alive THEN s
    ELSE IF message_type # None /\ message_type[1] # 0
    THEN write_string(
             write_byte(write_byte(s, OPCODE_MESSAGE), message_type[1]), message)
    ELSE write_message_chunks(s, chunked(message, STRING_SIZE), 1)

\* set_message (105-107)
set_message(s, message_type, message) ==
    IF MessageTypes \in s.extensions
    THEN send_message(s, message, Some(message_type)) ELSE s

\* set_location (109-115)
set_location(s, entity_number, x, y, z, yaw, pitch) ==
    IF ~s.alive THEN s
    ELSE LET s1 == write_location(
                       write_byte(write_byte(s, OPCODE_ABSOLUTE_LOCATION),
                                  entity_number),
                       x, y, z, yaw, pitch)
         IN  IF ~Raised(s1) /\ entity_number = 255
             THEN [s1 EXCEPT !.last_location = Some(<<x, y, z, yaw, pitch>>)]
             ELSE s1

\* set_color_code (123-126): write_struct("4Bc", r, g, b, a, number), with
\* number a one-byte bytes object; no opcode byte is written
set_color_code(s, number, r, g, b, a) ==
    IF ~s.alive THEN s
    ELSE IF TextColors \in s.extensions
    THEN IF \A v \in {r, g, b, a} : InUnsigned(v, 8)
         THEN write(s, <<r, g, b, a, number>>)
         ELSE Raise(s, "struct.error")
    ELSE s

\* set_block_permission (128-134); create and destroy are 0 or 1
set_block_permission(s, block, create, destroy) ==
    IF ~s.alive THEN s
    ELSE IF BlockPermissions \in s.extensions
    THEN write_byte(
             write_byte(write_byte(write_byte(s, OPCODE_SET_BLOCK_PERMISSION), block),
                        create),
             destroy)
    ELSE s

\* add_player (136-145); display_name and order are None or a value
add_player(s, player_id, name, display_name, order, group) ==
    IF ~s.alive THEN s
    ELSE IF ExtPlayerList2 \notin s.extensions THEN s
    ELSE LET s1 == write_short(write_byte(s, OPCODE_ADD_PLAYER), player_id)
             s2 == write_string(s1, name)
             s3 == write_string(s2, IF Truthy(display_name) THEN display_name[1]
                                    ELSE name)
             s4 == write_string(s3, group)
         IN  write_byte(s4, IF order # None /\ order[1] # 0 THEN order[1]
                            ELSE player_id)

\* remove_player (147-151)
remove_player(s, player_id) ==
    IF ~s.alive THEN s
    ELSE IF ExtPlayerList2 \notin s.extensions
    THEN write_short(write_byte(s, OPCODE_REMOVE_PLAYER), player_id)
    ELSE s

\* hold_this (153-158); force is 0 or 1
hold_this(s, block, force) ==
    IF ~s.alive THEN s
    ELSE IF ExtPlayerList2 \in s.extensions
    THEN write_byte(write_byte(write_byte(s, OPCODE_HOLD_THIS), block), force)
    ELSE s

-----------------------------------------------------------------------------
(* The server endpoint's decoders (server.py 169-219) *)

\* _handle_block_change (169-173)
s_handle_block_change(s) ==
    LET s1 == read_position(s, "position")
        s2 == read_byte(s1, "created")
        s3 == read_byte(s2, "holding")
    IN  Do(s3, LAMBDA t :
            upcall(t, "change_block",
                   t.locals.position \o <<t.locals.created # 0, t.locals.holding>>))

\* the held-block part of _handle_location_change (178-180)
s_change_held(s) ==
    IF HeldBlock \in s.extensions /\ Some(s.locals.holding) # s.last_held
    THEN Do(upcall(s, "change_held", <<s.locals.holding>>),
            LAMBDA t : [t EXCEPT !.last_held = Some(t.locals.holding)])
    ELSE s

\* _handle_location_change (175-182)
s_handle_location_change(s) ==
    LET s1 == read_byte(s, "holding")
        s2 == read_location(s1, "location")
        s3 == Do(s2, s_change_held)
    IN  Do(s3, LAMBDA t :
            IF Some(t.locals.location) # t.last_location
            THEN upcall(t, "change_location", t.locals.location)
            ELSE t)

\* _handle_click (184-190)
s_handle_click(s) ==
    LET s1 == read_raw(s, StructSize("2B"), "button_action")
        s2 == read_raw(s1, StructSize("2H"), "yaw_pitch")
        s3 == read_byte(s2, "target")
        s4 == read_position(s3, "t")
        s5 == read_byte(s4, "target_face")
    IN  Do(s5, LAMBDA t :
            upcall(t, "click",
                   t.locals.button_action
                       \o <<FromBE(SubSeq(t.locals.yaw_pitch, 1, 2)),
                            FromBE(SubSeq(t.locals.yaw_pitch, 3, 4)),
                            t.locals.target>>
                       \o t.locals.t \o <<t.locals.target_face>>))

\* the end of _handle_chat_message (196-199)
s_complete_message(s) ==
    IF s.locals.partial_message # 0 THEN s
    ELSE IF ~Decodable(rstrip(s.partial_message), s.text_encoding)
    THEN Raise(s, "UnicodeDecodeError")
    ELSE Do(upcall(s, "submit_message",
                   <<decode_classic_string(s.partial_message, s.text_encoding)>>),
            LAMBDA t : [t EXCEPT !.partial_message = <<>>])

\* _handle_chat_message (192-199)
s_handle_chat_message(s) ==
    LET s1 == read_byte(s, "partial_message")
        s2 == read_raw(s1, STRING_SIZE, "message_raw")
        s3 == Do(s2, LAMBDA t : [t EXCEPT !.partial_message = @ \o t.locals.message_raw])
    IN  Do(s3, s_complete_message)

\* _handle_hello (201-214)
s_handle_hello(s) ==
    LET s1 == Do(s, LAMBDA t : IF Truthy(t.username) THEN kick(t, MsgHelloTwice)
                               ELSE t)
        s2 == read_byte(s1, "version")
        s3 == Do(s2, LAMBDA t : IF t.locals.version # PROTOCOL_VERSION
                                THEN kick(t, MsgBadVersion(t.locals.version))
                                ELSE t)
        s4 == read_string(s3, "username")
        s5 == Do(s4, LAMBDA t : [t EXCEPT !.username = Some(t.locals.username)])
        s6 == read_string(s5, "token")
        s7 == Do(s6, LAMBDA t : [t EXCEPT !.token = Some(t.locals.token)])
        s8 == read_byte(s7, "magic")
    IN  Do(s8, LAMBDA t :
            IF t.locals.magic = CPE_MAGIC
            THEN write_extensions("server", [t EXCEPT !.vendor = UNKNOWN_VENDOR])
            ELSE received_extensions("server", t))

\* ClientConnectionHandler.handlers (231-239) over BaseConnection.handlers
\* (189-194): the decoder of an opcode, applied
s_dispatch(s, opcode) ==
    CASE opcode = OPCODE_EXT_INFO -> handle_ext_info(s)
      [] opcode = OPCODE_EXT_ENTRY -> handle_ext_entry("server", s)
      [] opcode = OPCODE_HELLO -> s_handle_hello(s)
      [] opcode = OPCODE_CHANGE_BLOCK -> s_handle_block_change(s)
      [] opcode = OPCODE_ABSOLUTE_LOCATION -> s_handle_location_change(s)
      [] opcode = OPCODE_MESSAGE -> s_handle_chat_message(s)
      [] opcode = OPCODE_CLICK -> s_handle_click(s)
      [] OTHER -> handle_unknown(s)

-----------------------------------------------------------------------------
(* ServerConnectionHandler, src/classic/client.py: the client endpoint *)

\* ServerConnectionHandler.__init__ (18-28); name, motd and last_heartbeat
\* are the attributes _handle_hello and _handle_heartbeat create
ClientInit ==
    [f \in DOMAIN BaseInit \cup
           {"operator", "holding", "receiving_level", "level_buffer",
            "last_location", "last_held", "partial_message",
            "name", "motd", "last_heartbeat"} |->
        CASE f \in {"level_buffer", "last_location", "last_held",
                    "name", "motd", "last_heartbeat"} -> None
          [] f \in {"operator", "holding"} -> 0
          [] f = "receiving_level" -> FALSE
          [] f = "partial_message" -> <<>>
          [] OTHER -> BaseInit[f]]

\* hello (32-37)
c_hello(s, username, password) ==
    write_byte(
        write_string(
            write_string(write_byte(write_byte(s, OPCODE_HELLO), PROTOCOL_VERSION),
                         username),
            password),
        CPE_MAGIC)

\* change_location (44-48)
c_change_location(s, x, y, z, yaw, pitch, holding) ==
    LET s1 == write_location(
                  write_byte(write_byte(s, OPCODE_ABSOLUTE_LOCATION), holding),
                  x, y, z, yaw, pitch)
    IN  IF Raised(s1) THEN s1
        ELSE [s1 EXCEPT !.last_location = Some(<<x, y, z, yaw, pitch>>)]

\* change_held (39-42): *self._last_location is a TypeError while it is None
c_change_held(s, block) ==
    LET s1 == IF HeldBlock \in s.extensions
              THEN IF s.last_location = None THEN Raise(s, "TypeError")
                   ELSE LET l == s.last_location[1]
                        IN  c_change_location(s, l[1], l[2], l[3], l[4], l[5], block)
              ELSE s
    IN  IF Raised(s1) THEN s1 ELSE [s1 EXCEPT !.holding = block]

\* change_block (62-66); placed is 0 or 1
c_change_block(s, x, y, z, placed, holding) ==
    write_byte(
        write_byte(write_position(write_byte(s, OPCODE_CHANGE_BLOCK), x, y, z), placed),
        holding)

\* set_block (50-53)
c_set_block(s, x, y, z, block) ==
    c_change_block([s EXCEPT !.holding = block], x, y, z,
                   IF block # 0 THEN 1 ELSE 0, block)

\* break_block (55-60); holding is None or a block
c_break_block(s, x, y, z, holding) ==
    IF holding # None /\ holding[1] # 0
    THEN c_change_block([s EXCEPT !.holding = holding[1]], x, y, z, 0, holding[1])
    ELSE c_change_block(s, x, y, z, 0, s.holding)

RECURSIVE c_write_message_chunks(_, _, _)
\* the loop of submit_message (70-74), from the i-th chunk on: partial is 0
\* for the first chunk and 1 for every later one
c_write_message_chunks(s, chunks, i) ==
    IF i > Len(chunks) THEN s
    ELSE c_write_message_chunks(
             write_string(
                 write_byte(write_byte(s, OPCODE_MESSAGE), IF i = 1 THEN 0 ELSE 1),
                 chunks[i]),
             chunks, i + 1)

\* submit_message (68-74)
c_submit_message(s, message) ==
    c_write_message_chunks(s, chunked(message, STRING_SIZE), 1)

-----------------------------------------------------------------------------
(* The client endpoint's decoders (client.py 85-187) *)

\* _handle_kick (85-88)
c_handle_kick(s) ==
    LET s1 == read_string(s, "message")
    IN  Do(s1, LAMBDA t : close(upcall(t, "kick", <<t.locals.message>>)))

\* _handle_chat_message (90-93)
c_handle_chat_message(s) ==
    LET s1 == read_byte(s, "message_type")
        s2 == read_string(s1, "message")
    IN  Do(s2, LAMBDA t : upcall(t, "send_message", <<t.locals.message>>))

\* _handle_set_block (95-98)
c_handle_set_block(s) ==
    LET s1 == read_position(s, "xyz")
        s2 == read_byte(s1, "block")
    IN  Do(s2, LAMBDA t : upcall(t, "set_block", t.locals.xyz \o <<t.locals.block>>))

\* _handle_add_entity (100-104)
c_handle_add_entity(s) ==
    LET s1 == read_byte(s, "entity_number")
        s2 == read_string(s1, "name")
        s3 == read_location(s2, "location")
    IN  Do(s3, LAMBDA t :
            upcall(t, "add_entity",
                   <<t.locals.entity_number, t.locals.name>> \o t.locals.location
                       \o <<t.locals.name>>))

\* _handle_move_entity (106-110): a block-space position, then "2B"
c_handle_move_entity(s) ==
    LET s1 == read_byte(s, "entity_number")
        s2 == read_position(s1, "location")
        s3 == read_raw(s2, StructSize("2B"), "yaw_pitch")
    IN  Do(s3, LAMBDA t :
            upcall(t, "move_entity",
                   <<t.locals.entity_number>> \o t.locals.location
                       \o t.locals.yaw_pitch))

\* struct "b": a signed byte
SByte(b) == FromSignedBE(<<b>>)

\* _handle_relative_location (112-115)
c_handle_relative_location(s) ==
    LET s1 == read_byte(s, "number")
        s2 == read_raw(s1, StructSize("3b2B"), "d")
    IN  Do(s2, LAMBDA t :
            upcall(t, "shift_entity",
                   <<t.locals.number, SByte(t.locals.d[1]), SByte(t.locals.d[2]),
                     SByte(t.locals.d[3]), t.locals.d[4], t.locals.d[5]>>))

\* _handle_relative_position (117-120): dh and dp keep their default, 0
c_handle_relative_position(s) ==
    LET s1 == read_byte(s, "number")
        s2 == read_raw(s1, StructSize("3b"), "d")
    IN  Do(s2, LAMBDA t :
            upcall(t, "shift_entity",
                   <<t.locals.number, SByte(t.locals.d[1]), SByte(t.locals.d[2]),
                     SByte(t.locals.d[3]), 0, 0>>))

\* _handle_relative_orientation (122-125): dx, dy and dz keep their default
c_handle_relative_orientation(s) ==
    LET s1 == read_byte(s, "number")
        s2 == read_raw(s1, StructSize("2B"), "d")
    IN  Do(s2, LAMBDA t :
            upcall(t, "shift_entity",
                   <<t.locals.number, 0, 0, 0, t.locals.d[1], t.locals.d[2]>>))

\* _handle_remove_entity (127-129)
c_handle_remove_entity(s) ==
    Do(read_byte(s, "entity_number"),
       LAMBDA t : upcall(t, "remove_entity", <<t.locals.entity_number>>))

\* _handle_level_start (131-133)
c_handle_level_start(s) ==
    IF Raised(s) THEN s
    ELSE [s EXCEPT !.receiving_level = TRUE, !.level_buffer = Some(<<>>)]

\* chunk[:size] of Python, for any integer size
Prefix(chunk, size) ==
    IF size >= 0 THEN SubSeq(chunk, 1, Min(size, Len(chunk)))
    ELSE SubSeq(chunk, 1, IF Len(chunk) + size > 0 THEN Len(chunk) + size ELSE 0)

\* _handle_level_chunk (135-140)
c_handle_level_chunk(s) ==
    LET s1 == read_short(s, "size")
        s2 == read_raw(s1, StructSize("1024s"), "chunk")
        s3 == read_byte(s2, "complete")
    IN  Do(s3, LAMBDA t :
            IF t.receiving_level
            THEN [t EXCEPT !.level_buffer =
                      Some(@[1] \o Prefix(t.locals.chunk, t.locals.size))]
            ELSE t)

\* the body of `if self._receiving_level:` in _handle_level_end (145-148);
\* buff[4:] is what follows the first four bytes
c_deliver_level(s) ==
    IF gzip_status(s.level_buffer[1]) # "ok"
    THEN Raise(s, gzip_status(s.level_buffer[1]))
    ELSE Do(upcall(s, "send_level",
                   s.locals.xyz
                       \o <<SubSeq(gzip_decompress(s.level_buffer[1]), 5,
                                   Len(gzip_decompress(s.level_buffer[1])))>>),
            LAMBDA t : [t EXCEPT !.receiving_level = FALSE, !.level_buffer = None])

\* _handle_level_end (142-148)
c_handle_level_end(s) ==
    Do(read_position(s, "xyz"),
       LAMBDA t : IF t.receiving_level THEN c_deliver_level(t) ELSE t)

\* _handle_hello (150-161)
c_handle_hello(s) ==
    LET s1 == read_byte(s, "version")
        s2 == read_string(s1, "name")
        s3 == read_string(s2, "motd")
        s4 == read_byte(s3, "operator")
        s5 == Do(s4, LAMBDA t :
                  [t EXCEPT !.name = Some(t.locals.name), !.motd = Some(t.locals.motd),
                            !.operator = t.locals.operator])
        s6 == Do(s5, LAMBDA t : IF t.locals.version # PROTOCOL_VERSION THEN close(t)
                                ELSE t)
        s7 == install_handler(s6)
    IN  Do(s7, LAMBDA t : upcall(t, "world_info", <<t.locals.name, t.locals.motd>>))

\* _handle_add_player (163-169); group is None for an empty string
c_handle_add_player(s) ==
    LET s1 == read_short(s, "number")
        s2 == read_string(s1, "name")
        s3 == read_string(s2, "display_name")
        s4 == read_string(s3, "group")
        s5 == read_byte(s4, "rank")
    IN  Do(s5, LAMBDA t :
            upcall(t, "add_player",
                   <<t.locals.number, t.locals.name, t.locals.display_name,
                     t.locals.rank,
                     IF t.locals.group = <<>> THEN None ELSE Some(t.locals.group)>>))

\* _handle_ext_add_entity (171-176)
c_handle_ext_add_entity(s) ==
    LET s1 == read_byte(s, "entity_number")
        s2 == read_string(s1, "name")
        s3 == read_string(s2, "skin")
        s4 == read_location(s3, "location")
    IN  Do(s4, LAMBDA t :
            upcall(t, "add_entity",
                   <<t.locals.entity_number, t.locals.name>> \o t.locals.location
                       \o <<t.locals.skin>>))

\* _handle_remove_player (178-180)
c_handle_remove_player(s) ==
    Do(read_short(s, "number"),
       LAMBDA t : upcall(t, "remove_player", <<t.locals.number>>))

\* _handle_heartbeat (186-187): the time is kept as "some time"
c_handle_heartbeat(s) ==
    IF Raised(s) THEN s ELSE [s EXCEPT !.last_heartbeat = Some(0)]

\* ServerConnectionHandler.handlers (198-218) over BaseConnection.handlers
c_dispatch(s, opcode) ==
    CASE opcode = OPCODE_EXT_INFO -> handle_ext_info(s)
      [] opcode = OPCODE_EXT_ENTRY -> handle_ext_entry("client", s)
      [] opcode = OPCODE_HELLO -> c_handle_hello(s)
      [] opcode = OPCODE_START_LEVEL -> c_handle_level_start(s)
      [] opcode = OPCODE_LEVEL_CHUNK -> c_handle_level_chunk(s)
      [] opcode = OPCODE_FINISH_LEVEL -> c_handle_level_end(s)
      [] opcode = OPCODE_ADD_ENTITY -> c_handle_add_entity(s)
      [] opcode = OPCODE_REMOVE_ENTITY -> c_handle_remove_entity(s)
      [] opcode = OPCODE_ABSOLUTE_LOCATION -> c_handle_move_entity(s)
      [] opcode = OPCODE_SET_BLOCK -> c_handle_set_block(s)
      [] opcode = OPCODE_MESSAGE -> c_handle_chat_message(s)
      [] opcode = OPCODE_DISCONNECT -> c_handle_kick(s)
      [] opcode = OPCODE_HEARTBEAT -> c_handle_heartbeat(s)
      [] opcode = OPCODE_RELATIVE_POSITION -> c_handle_relative_position(s)
      [] opcode = OPCODE_RELATIVE_ORIENTATION -> c_handle_relative_orientation(s)
      [] opcode = OPCODE_RELATIVE_LOCATION -> c_handle_relative_location(s)
      [] opcode = OPCODE_ADD_PLAYER -> c_handle_add_player(s)
      [] opcode = OPCODE_ADD_ENTITY_EXT -> c_handle_ext_add_entity(s)
      [] opcode = OPCODE_REMOVE_PLAYER -> c_handle_remove_player(s)
      [] OTHER -> handle_unknown(s)

-----------------------------------------------------------------------------
(* The frame loop, connection.py 166-178 *)

\* the opcodes the table of a role gives a decoder of their own:
\* BaseConnection.handlers (189-194) with ClientConnectionHandler.handlers
\* (server.py 231-239) or ServerConnectionHandler.handlers (client.py 198-218)
AcceptedOpcodes(role) ==
    {OPCODE_EXT_INFO, OPCODE_EXT_ENTRY} \cup
    IF role = "server"
    THEN {OPCODE_HELLO, OPCODE_CHANGE_BLOCK, OPCODE_ABSOLUTE_LOCATION,
          OPCODE_MESSAGE, OPCODE_CLICK}
    ELSE {OPCODE_HELLO, OPCODE_START_LEVEL, OPCODE_LEVEL_CHUNK,
          OPCODE_FINISH_LEVEL, OPCODE_ADD_ENTITY, OPCODE_REMOVE_ENTITY,
          OPCODE_ABSOLUTE_LOCATION, OPCODE_SET_BLOCK, OPCODE_MESSAGE,
          OPCODE_DISCONNECT, OPCODE_HEARTBEAT, OPCODE_RELATIVE_POSITION,
          OPCODE_RELATIVE_ORIENTATION, OPCODE_RELATIVE_LOCATION,
          OPCODE_ADD_PLAYER, OPCODE_ADD_ENTITY_EXT, OPCODE_REMOVE_PLAYER}

\* the decoder self._handlers[opcode] of the role, applied (169)
dispatch(role, s) ==
    IF role = "server" THEN s_dispatch(s, s.locals.opcode)
    ELSE c_dispatch(s, s.locals.opcode)

\* BaseConnection.handle_next (166-171)
handle_next(role, s) ==
    LET s1 == read_byte(s, "opcode")
        s2 == Do(s1, LAMBDA t : [t EXCEPT !.current_opcode = Some(t.locals.opcode)])
        s3 == Do(s2, LAMBDA t : dispatch(role, t))
    IN  Do(s3, LAMBDA t : [t EXCEPT !.current_opcode = None,
                                    !.last_opcode = Some(t.locals.opcode)])

\* what `except (ConnectionResetError, EOFError)` catches
CaughtByLoop == {"IncompleteReadError", "EOFError", "ConnectionResetError"}

\* how a turn of the loop ends, given the session handle_next left
end_of_turn(s) ==
    IF s.exc \in CaughtByLoop
    THEN [close([s EXCEPT !.exc = "none", !.locals = NoLocals])
             EXCEPT !.loop = "exited"]
    ELSE IF Raised(s)
    THEN [s EXCEPT !.exc = "none", !.locals = NoLocals, !.loop = "crashed"]
    ELSE [s EXCEPT !.locals = NoLocals,
                   !.loop = IF s.alive THEN "running" ELSE "exited"]

\* One turn of BaseConnection.handle_forever (173-178), entered with the loop
\* waiting in read_byte: the frame is decoded, an EOFError closes the
\* session, any other exception ends the task, and the loop goes on only
\* while alive.
handle_forever_step(role, s) == end_of_turn(handle_next(role, s))

\* The step can be taken: the loop runs, and the whole frame has arrived or
\* the stream has ended (a read of a frame that is still arriving waits).
can_step(role, s) ==
    /\ s.loop = "running"
    /\ \/ s.reader.eof
       \/ s.reader.data # <<>> /\ handle_next(role, s).exc # "IncompleteReadError"

-----------------------------------------------------------------------------
(* The environment: the frames a peer may send and the calls an            *)
(* application may make.  A peer frame is the bytes a conforming encoder   *)
(* makes of it: an opcode and the fields the decoders above read.          *)

\* a 64-byte string field, in ASCII
F_string(x) == ljust(x, STRING_SIZE)

F_hello(version, name, aux, last) ==
    <<OPCODE_HELLO, version>> \o F_string(name) \o F_string(aux) \o <<last>>
F_ext_info(vendor, count) ==
    <<OPCODE_EXT_INFO>> \o F_string(vendor) \o SignedBE(count, 2)
F_ext_entry(ext) ==
    <<OPCODE_EXT_ENTRY>> \o F_string(ext.name) \o BE(ext.version, 4)
F_change_block(x, y, z, created, holding) ==
    <<OPCODE_CHANGE_BLOCK>> \o BE(x, 2) \o BE(y, 2) \o BE(z, 2) \o <<created, holding>>
F_location16(first, x, y, z, yaw, pitch) ==
    <<OPCODE_ABSOLUTE_LOCATION, first>> \o SignedBE(x, 2) \o SignedBE(y, 2)
        \o SignedBE(z, 2) \o <<yaw, pitch>>
F_message(first, text) == <<OPCODE_MESSAGE, first>> \o F_string(text)
F_click == <<OPCODE_CLICK, 0, 1>> \o BE(10, 2) \o BE(20, 2) \o <<255>>
               \o BE(1, 2) \o BE(2, 2) \o BE(3, 2) \o <<4>>
F_set_block(x, y, z, block) ==
    <<OPCODE_SET_BLOCK>> \o BE(x, 2) \o BE(y, 2) \o BE(z, 2) \o <<block>>
F_kick(reason) == <<OPCODE_DISCONNECT>> \o F_string(reason)
F_level_start == <<OPCODE_START_LEVEL>>
F_level_chunk(data) ==
    <<OPCODE_LEVEL_CHUNK>> \o BE(Len(data), 2) \o data
        \o Fill(CHUNK_SIZE - Len(data), 0) \o <<0>>
F_level_end(x, y, z) == <<OPCODE_FINISH_LEVEL>> \o BE(x, 2) \o BE(y, 2) \o BE(z, 2)

\* sample strings: "Alice", "xxxx", "srv", "World", "Hi", "Kicked", "hey"
T_Alice == <<65,108,105,99,101>>
T_xxxx == <<120,120,120,120>>
T_srv == <<115,114,118>>
T_World == <<87,111,114,108,100>>
T_Hi == <<72,105>>
T_Kicked == <<75,105,99,107,101,100>>
T_hey == <<104,101,121>>

\* a text of n letters: a, b, c, ... over again
Text(n) == [i \in 1..n |-> 97 + ((i - 1) % 26)]

\* the lengths of the texts and of the levels a linked pair sends: none, one
\* chunk, a full chunk, and more than one chunk (a text chunk is 64
\* characters, a level chunk 1024 bytes of the compressed level)
TextSizes == {0, 5, 64, 80, 130}
LevelSizes == {0, 5, 1100, 2100}

\* level data of n bytes
LevelData(n) == [i \in 1..n |-> (i * 7) % 256]

\* the frames a peer of the server endpoint sends; the last one is a hello
\* cut after its opcode
ServerPeerFrames ==
    {F_hello(v, T_Alice, T_xxxx, m) : v \in {PROTOCOL_VERSION, 6}, m \in {CPE_MAGIC, 0}}
    \cup {F_ext_info(T_srv, c) : c \in {0, 1, 2}}
    \cup {F_ext_entry(e) : e \in {EntityPositions, FullCP437, HeldBlock, TextColors}}
    \cup {F_change_block(10, 20, 30, 1, 1), F_location16(1, 32, -64, 96, 8, 9),
          F_message(0, T_hey), F_message(1, T_hey), F_click,
          F_set_block(10, 20, 30, 1), <<OPCODE_HELLO>>}

\* the frames a peer of the client endpoint sends; one level chunk is not
\* gzip data
ClientPeerFrames ==
    {F_hello(v, T_World, T_Hi, 0) : v \in {PROTOCOL_VERSION, 6}}
    \cup {F_ext_info(T_srv, c) : c \in {0, 1, 2}}
    \cup {F_ext_entry(e) : e \in {EntityPositions, FullCP437}}
    \cup {F_set_block(10, 20, 30, 1), F_kick(T_Kicked), F_message(0, T_hey),
          F_location16(1, 32, 64, 96, 8, 9), F_level_start,
          F_level_chunk(gzip_compress(level_payload(LevelData(5)))),
          F_level_chunk(<<1, 2, 3>>),
          F_level_end(2, 3, 4), F_change_block(10, 20, 30, 1, 1)}

\* the calls an application makes on the server endpoint: a name, the
\* arguments and the session the call leaves
ServerCalls(s) ==
    { [name |-> "add_entity", args |-> <<1, T_Alice, 32, 64, 96, 8, 9, None>>,
       s |-> add_entity(s, 1, T_Alice, 32, 64, 96, 8, 9, None)],
      [name |-> "move_entity", args |-> <<1, 32, -64, 96, 8, 9>>,
       s |-> move_entity(s, 1, 32, -64, 96, 8, 9)],
      [name |-> "remove_entity", args |-> <<1>>,
       s |-> remove_entity(s, 1)],
      [name |-> "world_info", args |-> <<T_World, T_Hi, 0>>,
       s |-> world_info(s, T_World, T_Hi, 0)],
      [name |-> "send_level", args |-> <<2, 3, 4, LevelData(5)>>,
       s |-> send_level(s, 2, 3, 4, LevelData(5))],
      [name |-> "set_block", args |-> <<10, 20, 30, 1>>,
       s |-> set_block(s, 10, 20, 30, 1)],
      [name |-> "send_message", args |-> <<T_hey, None>>,
       s |-> send_message(s, T_hey, None)],
      [name |-> "set_message", args |-> <<1, T_hey>>,
       s |-> set_message(s, 1, T_hey)],
      [name |-> "set_location", args |-> <<255, 32, -64, 96, 8, 9>>,
       s |-> set_location(s, 255, 32, -64, 96, 8, 9)],
      [name |-> "kick", args |-> <<T_Kicked>>,
       s |-> kick(s, T_Kicked)],
      [name |-> "set_color_code", args |-> <<97, 1, 2, 3, 255>>,
       s |-> set_color_code(s, 97, 1, 2, 3, 255)],
      [name |-> "set_block_permission", args |-> <<1, 1, 0>>,
       s |-> set_block_permission(s, 1, 1, 0)],
      [name |-> "add_player", args |-> <<1, T_Alice, None, None, <<>> >>,
       s |-> add_player(s, 1, T_Alice, None, None, <<>>)],
      [name |-> "remove_player", args |-> <<1>>,
       s |-> remove_player(s, 1)],
      [name |-> "hold_this", args |-> <<1, 0>>,
       s |-> hold_this(s, 1, 0)],
      [name |-> "close", args |-> <<>>,
       s |-> close(s)] }

\* the calls an application makes on the client endpoint
ClientCalls(s) ==
    { [name |-> "hello", args |-> <<T_Alice, T_xxxx>>,
       s |-> c_hello(s, T_Alice, T_xxxx)],
      [name |-> "change_held", args |-> <<2>>,
       s |-> c_change_held(s, 2)],
      [name |-> "change_location", args |-> <<32, -64, 96, 8, 9, 0>>,
       s |-> c_change_location(s, 32, -64, 96, 8, 9, 0)],
      [name |-> "set_block", args |-> <<10, 20, 30, 1>>,
       s |-> c_set_block(s, 10, 20, 30, 1)],
      [name |-> "break_block", args |-> <<10, 20, 30, None>>,
       s |-> c_break_block(s, 10, 20, 30, None)],
      [name |-> "change_block", args |-> <<10, 20, 30, 1, 1>>,
       s |-> c_change_block(s, 10, 20, 30, 1, 1)],
      [name |-> "submit_message", args |-> <<T_hey>>,
       s |-> c_submit_message(s, T_hey)],
      [name |-> "close", args |-> <<>>,
       s |-> close(s)] }

\* the calls an application makes on the server endpoint of a linked pair
LinkServerCalls(s) ==
    { [name |-> "world_info", args |-> <<T_World, T_Hi, 0>>,
       s |-> world_info(s, T_World, T_Hi, 0)],
      [name |-> "kick", args |-> <<T_Kicked>>,
       s |-> kick(s, T_Kicked)],
      [name |-> "set_block", args |-> <<10, 20, 30, 1>>,
       s |-> set_block(s, 10, 20, 30, 1)],
      [name |-> "move_entity", args |-> <<1, 32, -64, 96, 8, 9>>,
       s |-> move_entity(s, 1, 32, -64, 96, 8, 9)],
      [name |-> "set_location", args |-> <<2, 32, 64, 96, 8, 9>>,
       s |-> set_location(s, 2, 32, 64, 96, 8, 9)] }
    \cup { [name |-> "send_level", args |-> <<2, 3, 4, LevelData(n)>>,
       s |-> send_level(s, 2, 3, 4, LevelData(n))] :
              n \in LevelSizes }
    \cup { [name |-> "send_message", args |-> <<Text(n), None>>,
       s |-> send_message(s, Text(n), None)] :
              n \in TextSizes }

\* the calls an application makes on the client endpoint of a linked pair
LinkClientCalls(s) ==
    { [name |-> "hello", args |-> <<T_Alice, T_xxxx>>,
       s |-> c_hello(s, T_Alice, T_xxxx)] }
    \cup { [name |-> "submit_message", args |-> <<Text(n)>>,
       s |-> c_submit_message(s, Text(n))] :
              n \in TextSizes }

\* what the last step was: kind is "init", "frame" (a frame arrived), "eof",
\* "step" (a turn of the frame loop) or "call"; a call has its name, whether
\* the session was closed when it was made, the bytes it wrote and the
\* exception it raised; a step has the bytes it read
Event(kind, who, name, before, after, raised) ==
    [ kind |-> kind, who |-> who, name |-> name,
      dead |-> ~before.alive,
      read |-> SubSeq(before.reader.data, 1,
                      Len(before.reader.data) - Len(after.reader.data)),
      wrote |-> Len(after.writer) - Len(before.writer),
      raised |-> raised ]

\* a call the application made: dead tells whether the session was closed
Call(who, name, args, before) ==
    [who |-> who, name |-> name, args |-> args, dead |-> ~before.alive]

\* an exception raised by a call goes to the caller
Returned(s) == [s EXCEPT !.exc = "none"]

-----------------------------------------------------------------------------
(* Actions.  mode tells which system a behaviour is about: "server" (the   *)
(* server endpoint and a peer that sends what it likes), "client" (the     *)
(* client endpoint and such a peer) or "link" (the two endpoints joined by *)
(* a reliable stream in each direction).                                   *)

NoEvent == [kind |-> "init", who |-> "none", name |-> "none", dead |-> FALSE,
            read |-> <<>>, wrote |-> 0, raised |-> "none"]

InitMode(m) ==
    /\ srv = ServerInit
    /\ cli = ClientInit
    /\ ev = NoEvent
    /\ nframes = 0
    /\ ncalls = 0
    /\ mode = m
    /\ sent = <<>>

\* A peer's frame arrives at the reader.  A frame that arrives while an
\* earlier one waits to be decoded is decoded after it all the same, so
\* frames arrive one at a time, each once the loop has read all it can.
ServerPeerFrame ==
    /\ mode = "server"
    /\ nframes < MaxFrames
    /\ srv.loop = "running"
    /\ ~srv.reader.eof
    /\ ~can_step("server", srv)
    /\ \E f \in ServerPeerFrames : srv' = [srv EXCEPT !.reader.data = @ \o f]
    /\ nframes' = nframes + 1
    /\ ev' = Event("frame", "server", "frame", srv, srv, "none")
    /\ UNCHANGED <<cli, ncalls, mode, sent>>

\* the peer ends the stream
ServerPeerEOF ==
    /\ mode = "server"
    /\ nframes < MaxFrames
    /\ srv.loop = "running"
    /\ ~srv.reader.eof
    /\ ~can_step("server", srv)
    /\ srv' = [srv EXCEPT !.reader.eof = TRUE]
    /\ nframes' = nframes + 1
    /\ ev' = Event("eof", "server", "eof", srv, srv, "none")
    /\ UNCHANGED <<cli, ncalls, mode, sent>>

\* a turn of the server endpoint's frame loop
ServerStep ==
    /\ mode = "server"
    /\ can_step("server", srv)
    /\ srv' = handle_forever_step("server", srv)
    /\ ev' = Event("step", "server", "step", srv, srv', handle_next("server", srv).exc)
    /\ UNCHANGED <<cli, nframes, ncalls, mode, sent>>

\* the application calls an operation of the server endpoint
ServerCall ==
    /\ mode = "server"
    /\ ncalls < MaxCalls
    /\ \E c \in ServerCalls(srv) :
          /\ srv' = Returned(c.s)
          /\ ev' = Event("call", "server", c.name, srv, c.s, c.s.exc)
          /\ sent' = Append(sent, Call("server", c.name, c.args, srv))
    /\ ncalls' = ncalls + 1
    /\ UNCHANGED <<cli, nframes, mode>>

ClientPeerFrame ==
    /\ mode = "client"
    /\ nframes < MaxFrames
    /\ cli.loop = "running"
    /\ ~cli.reader.eof
    /\ ~can_step("client", cli)
    /\ \E f \in ClientPeerFrames : cli' = [cli EXCEPT !.reader.data = @ \o f]
    /\ nframes' = nframes + 1
    /\ ev' = Event("frame", "client", "frame", cli, cli, "none")
    /\ UNCHANGED <<srv, ncalls, mode, sent>>

ClientPeerEOF ==
    /\ mode = "client"
    /\ nframes < MaxFrames
    /\ cli.loop = "running"
    /\ ~cli.reader.eof
    /\ ~can_step("client", cli)
    /\ cli' = [cli EXCEPT !.reader.eof = TRUE]
    /\ nframes' = nframes + 1
    /\ ev' = Event("eof", "client", "eof", cli, cli, "none")
    /\ UNCHANGED <<srv, ncalls, mode, sent>>

\* a turn of the client endpoint's frame loop
ClientStep ==
    /\ mode = "client"
    /\ can_step("client", cli)
    /\ cli' = handle_forever_step("client", cli)
    /\ ev' = Event("step", "client", "step", cli, cli', handle_next("client", cli).exc)
    /\ UNCHANGED <<srv, nframes, ncalls, mode, sent>>

\* the application calls an operation of the client endpoint
ClientCall ==
    /\ mode = "client"
    /\ ncalls < MaxCalls
    /\ \E c \in ClientCalls(cli) :
          /\ cli' = Returned(c.s)
          /\ ev' = Event("call", "client", c.name, cli, c.s, c.s.exc)
          /\ sent' = Append(sent, Call("client", c.name, c.args, cli))
    /\ ncalls' = ncalls + 1
    /\ UNCHANGED <<srv, nframes, mode>>

\* the bytes `after` wrote since `before`, arrived at the reader of `to`
Deliver(before, after, to) ==
    [to EXCEPT !.reader.data =
         @ \o SubSeq(after.writer, Len(before.writer) + 1, Len(after.writer))]

LinkServerCall ==
    /\ mode = "link"
    /\ ncalls < MaxLinkCalls
    /\ \E c \in LinkServerCalls(srv) :
          /\ srv' = Returned(c.s)
          /\ cli' = Deliver(srv, c.s, cli)
          /\ ev' = Event("call", "server", c.name, srv, c.s, c.s.exc)
          /\ sent' = Append(sent, Call("server", c.name, c.args, srv))
    /\ ncalls' = ncalls + 1
    /\ UNCHANGED <<nframes, mode>>

LinkClientCall ==
    /\ mode = "link"
    /\ ncalls < MaxLinkCalls
    /\ \E c \in LinkClientCalls(cli) :
          /\ cli' = Returned(c.s)
          /\ srv' = Deliver(cli, c.s, srv)
          /\ ev' = Event("call", "client", c.name, cli, c.s, c.s.exc)
          /\ sent' = Append(sent, Call("client", c.name, c.args, cli))
    /\ ncalls' = ncalls + 1
    /\ UNCHANGED <<nframes, mode>>

LinkServerStep ==
    /\ mode = "link"
    /\ can_step("server", srv)
    /\ LET s1 == handle_forever_step("server", srv)
       IN  /\ srv' = s1
           /\ cli' = Deliver(srv, s1, cli)
           /\ ev' = Event("step", "server", "step", srv, s1,
                          handle_next("server", srv).exc)
    /\ UNCHANGED <<nframes, ncalls, mode, sent>>

LinkClientStep ==
    /\ mode = "link"
    /\ can_step("client", cli)
    /\ LET c1 == handle_forever_step("client", cli)
       IN  /\ cli' = c1
           /\ srv' = Deliver(cli, c1, srv)
           /\ ev' = Event("step", "client", "step", cli, c1,
                          handle_next("client", cli).exc)
    /\ UNCHANGED <<nframes, ncalls, mode, sent>>

\* The client endpoint's stream starts with a hello as the protocol has it
\* (version 7 after the opcode), ahead of anything the server endpoint
\* writes: the frames the client endpoint decodes after it start at a
\* frame boundary, with a handler installed.
LinkHello ==
    /\ mode = "link"
    /\ nframes = 0
    /\ srv.writer = <<>>
    /\ cli' = [cli EXCEPT !.reader.data =
                   @ \o F_hello(PROTOCOL_VERSION, T_World, T_Hi, 0)]
    /\ nframes' = 1
    /\ ev' = Event("frame", "client", "frame", cli, cli, "none")
    /\ UNCHANGED <<srv, ncalls, mode, sent>>

\* The handshake of a linked pair. The client side connects and says hello
\* (the calls the client endpoint has made so far number none).
HandshakeHello ==
    /\ mode = "link"
    /\ sent = <<>>
    /\ LET c1 == c_hello(cli, T_Alice, T_xxxx)
       IN  /\ cli' = Returned(c1)
           /\ srv' = Deliver(cli, c1, srv)
           /\ ev' = Event("call", "client", "hello", cli, c1, c1.exc)
           /\ sent' = Append(sent, Call("client", "hello", <<T_Alice, T_xxxx>>, cli))
    /\ UNCHANGED <<nframes, ncalls, mode>>

\* the calls the client endpoint's application has made after its hello
ClientCallsMade == Len(SelectSeq(sent, LAMBDA c : c.who = "client")) - 1

\* An application reaches its session through the handler the factory
\* made for it: the server side calls once its handler is installed,
HandshakeServerCall ==
    /\ sent # <<>>
    /\ srv.handler # 0
    /\ LinkServerCall

\* and so does the client side.
HandshakeClientCall ==
    /\ mode = "link"
    /\ sent # <<>>
    /\ cli.handler # 0
    /\ ClientCallsMade < MaxCalls
    /\ \E c \in LinkClientCalls(cli) :
          /\ cli' = Returned(c.s)
          /\ srv' = Deliver(cli, c.s, srv)
          /\ ev' = Event("call", "client", c.name, cli, c.s, c.s.exc)
          /\ sent' = Append(sent, Call("client", c.name, c.args, cli))
    /\ UNCHANGED <<nframes, ncalls, mode>>

NextHandshake ==
    \/ HandshakeHello
    \/ HandshakeServerCall
    \/ HandshakeClientCall
    \/ LinkServerStep
    \/ LinkClientStep

NextServer == ServerPeerFrame \/ ServerPeerEOF \/ ServerStep \/ ServerCall
NextClient == ClientPeerFrame \/ ClientPeerEOF \/ ClientStep \/ ClientCall
NextLink ==
    LinkServerCall \/ LinkClientCall \/ LinkServerStep \/ LinkClientStep \/ LinkHello

\* the server endpoint against any peer
SpecServer == InitMode("server") /\ [][NextServer]_vars
\* the client endpoint against any peer
SpecClient == InitMode("client") /\ [][NextClient]_vars
\* the two endpoints, linked
SpecLink == InitMode("link") /\ [][NextLink]_vars

\* Weak fairness of each endpoint's loop: handle_forever takes its next
\* turn whenever a whole frame is waiting. This is WF_vars(LinkServerStep)
\* and WF_vars(LinkClientStep) with the enabling condition written out: a
\* turn is possible exactly when can_step holds, and it always consumes
\* input.
ServerLoopFair ==
    []<>(~(mode = "link" /\ can_step("server", srv))) \/ []<><<LinkServerStep>>_vars
ClientLoopFair ==
    []<>(~(mode = "link" /\ can_step("client", cli))) \/ []<><<LinkClientStep>>_vars

\* the two endpoints from the client's hello on
SpecHandshake ==
    /\ InitMode("link")
    /\ [][NextHandshake]_vars
    /\ ServerLoopFair
    /\ ClientLoopFair

Init == \E m \in {"server", "client", "link"} : InitMode(m)
Next == NextServer \/ NextClient \/ NextLink
Spec == Init /\ [][Next]_vars

-----------------------------------------------------------------------------
(* What the properties below speak of *)

\* the upcalls op a session's handlers received, in order
Upcalls(s, op) == SelectSeq(s.upcalls, LAMBDA u : u.op = op)

\* the arguments of each upcall op, in order
UpcallArgs(s, op) == [i \in 1..Len(Upcalls(s, op)) |-> Upcalls(s, op)[i].args]

\* the calls name the application made on the endpoint who while it was alive
LiveCalls(who, name) ==
    SelectSeq(sent, LAMBDA c : c.who = who /\ c.name = name /\ ~c.dead)

\* a is the beginning of b
IsPrefix(a, b) == Len(a) <= Len(b) /\ SubSeq(b, 1, Len(a)) = a

\* the bytes the last step or call wrote on the session s
LastWritten(s) == SubSeq(s.writer, Len(s.writer) - ev.wrote + 1, Len(s.writer))

\* the sessions of the system
Sessions == {srv, cli}

\* the loop of the session stands at a frame boundary with nothing left to
\* decode, and a handler is there to take upcalls
Idle(s) == s.loop = "running" /\ s.handler # 0 /\ s.reader.data = <<>>

-----------------------------------------------------------------------------
(* Properties *)

\* C1: a session that closes delivers disconnect() exactly once over its
\* life: never twice, and not zero times once it is closed and has a handler.
C1_DisconnectExactlyOnce ==
    \A s \in Sessions :
        /\ Len(Upcalls(s, "disconnect")) <= 1
        /\ (~s.alive /\ s.handler # 0) => Len(Upcalls(s, "disconnect")) = 1

\* C2: an outbound operation the application calls on a closed session, of
\* either role, writes no byte and raises no error.
C2_ClosedCallsWriteNothing ==
    (ev.kind = "call" /\ ev.dead /\ ev.name # "close")
        => (ev.wrote = 0 /\ ev.raised = "none")

\* C3: the handler factory is invoked at most once in a session, and only
\* once the handshake is over (received_extensions has fired).
C3_FactoryOnceAfterHandshake ==
    \A s \in Sessions :
        /\ s.factory_calls <= 1
        /\ s.factory_calls > 0 => s.received > 0

\* the levels the server endpoint sent while alive, as the client endpoint's
\* handler is to receive them
LevelsSent ==
    [i \in 1..Len(LiveCalls("server", "send_level")) |->
        LiveCalls("server", "send_level")[i].args]

\* the levels the client endpoint's handler received
LevelsReceived == UpcallArgs(cli, "send_level")

\* the client endpoint is about to decode the finish-level frame of a level
AtLevelEnd ==
    /\ cli.loop = "running"
    /\ cli.receiving_level
    /\ cli.reader.data # <<>>
    /\ cli.reader.data[1] = OPCODE_FINISH_LEVEL
    /\ Len(LevelsReceived) < Len(LevelsSent)

\* C4: the levels the client endpoint's handler receives are the levels the
\* server endpoint sent, in order, position and data byte for byte, one
\* upcall for each level whose frames the client endpoint decoded; when the
\* finish-level frame is next, the valid prefixes of the chunks received
\* make up the compressed length-prefixed payload.
C4_LevelRoundTrip ==
    /\ IsPrefix(LevelsReceived, LevelsSent)
    /\ Idle(cli) => LevelsReceived = LevelsSent
    /\ AtLevelEnd =>
          cli.level_buffer =
              Some(gzip_compress(level_payload(
                       LevelsSent[Len(LevelsReceived) + 1][4])))

\* C4 happens: the handler received an empty level and one whose compressed
\* form took more than one chunk
C4_Witness ==
    /\ \E i \in 1..Len(LevelsReceived) : LevelsReceived[i][4] = <<>>
    /\ \E i \in 1..Len(LevelsReceived) :
          Len(gzip_compress(level_payload(LevelsReceived[i][4]))) > CHUNK_SIZE

\* C5: once received_extensions has fired, EntityPositions is among the
\* session's extensions exactly when locations have 32-bit axes, and
\* FullCP437 exactly when text is CP437, whatever frames follow.
C5_FormatsFollowExtensions ==
    \A s \in Sessions :
        s.received > 0 =>
            /\ (EntityPositions \in s.extensions) <=> (s.location_struct = "3i2B")
            /\ (FullCP437 \in s.extensions) <=> (s.text_encoding = "cp437")

\* the calls name of who, made while alive, with a text that is not empty
\* (an empty text goes out as no frame at all)
TextCalls(who, name) ==
    SelectSeq(LiveCalls(who, name), LAMBDA c : c.args[1] # <<>>)

\* the texts the server endpoint sent as chat while alive, as the client
\* endpoint's handler is to receive them: one string each, trailing
\* whitespace trimmed
MessagesSent ==
    [i \in 1..Len(TextCalls("server", "send_message")) |->
        <<rstrip(TextCalls("server", "send_message")[i].args[1])>>]

\* ceil(n / 64)
FramesFor(n) == (n + STRING_SIZE - 1) \div STRING_SIZE

\* C6: a chat message of length L sent by the server endpoint goes out as
\* ceil(L/64) message frames (66 bytes each), and the client endpoint's
\* handler receives the messages sent, one send_message upcall for each,
\* carrying the whole text.
C6_ChatServerToClient ==
    /\ (ev.kind = "call" /\ ev.who = "server" /\ ev.name = "send_message"
            /\ ~ev.dead)
          => ev.wrote = (STRING_SIZE + 2) * FramesFor(Len(sent[Len(sent)].args[1]))
    /\ IsPrefix(UpcallArgs(cli, "send_message"), MessagesSent)
    /\ Idle(cli) => UpcallArgs(cli, "send_message") = MessagesSent

\* the texts the client endpoint submitted, as the server endpoint's handler
\* is to receive them
MessagesSubmitted ==
    [i \in 1..Len(TextCalls("client", "submit_message")) |->
        <<rstrip(TextCalls("client", "submit_message")[i].args[1])>>]

\* frames is a run of n message frames, the last with flag 0 and the others
\* with flag 1
FlaggedChunks(frames, n) ==
    /\ Len(frames) = n * (STRING_SIZE + 2)
    /\ \A i \in 1..n :
          /\ frames[(i - 1) * (STRING_SIZE + 2) + 1] = OPCODE_MESSAGE
          /\ frames[(i - 1) * (STRING_SIZE + 2) + 2] = IF i < n THEN 1 ELSE 0

\* C7: a message the client endpoint submits goes out in chunks, every chunk
\* but the last with flag 1 and the last with flag 0; the server endpoint's
\* handler receives the messages submitted, one submit_message upcall for
\* each, and its partial buffer is empty once it has decoded them.
C7_ChatClientToServer ==
    /\ (ev.kind = "call" /\ ev.who = "client" /\ ev.name = "submit_message"
            /\ sent[Len(sent)].args[1] # <<>>)
          => FlaggedChunks(LastWritten(cli), FramesFor(Len(sent[Len(sent)].args[1])))
    /\ IsPrefix(UpcallArgs(srv, "submit_message"), MessagesSubmitted)
    /\ Idle(srv) =>
          /\ UpcallArgs(srv, "submit_message") = MessagesSubmitted
          /\ srv.partial_message = <<>>

\* C8: after a disconnect() upcall no handler of the session receives any
\* upcall: a disconnect is the last upcall of its session.
C8_NothingAfterDisconnect ==
    \A s \in Sessions :
        \A i \in 1..Len(s.upcalls) :
            s.upcalls[i].op = "disconnect" => i = Len(s.upcalls)

\* the last step of the server endpoint, alive until then, decoded a whole
\* hello frame whose version is not 7
RejectedHello ==
    /\ ev.kind = "step"
    /\ ev.who = "server"
    /\ ~ev.dead
    /\ Len(ev.read) = 2 * STRING_SIZE + 3
    /\ ev.read[1] = OPCODE_HELLO
    /\ ev.read[2] # PROTOCOL_VERSION

\* C9: a hello whose version is not 7 makes the server endpoint write one
\* disconnect frame and close, and nothing is written after that frame,
\* whatever the magic byte.
C9_RejectedHelloWritesOnlyDisconnect ==
    RejectedHello =>
        /\ ~srv.alive
        /\ ev.wrote = STRING_SIZE + 1
        /\ LastWritten(srv)[1] = OPCODE_DISCONNECT

\* C10: the frame world_info(name, motd, operator) writes is the opcode, the
\* version 7, the name, the motd and the operator; and in a link where the
\* server endpoint alone writes to the client endpoint, the client endpoint
\* stays alive on it and its handler receives world_info(name, motd) as sent.
C10_HelloRoundTrip ==
    /\ (ev.kind = "call" /\ ev.who = "server" /\ ev.name = "world_info"
            /\ ~ev.dead)
          => LastWritten(srv) =
                 <<OPCODE_HELLO, PROTOCOL_VERSION>>
                     \o F_string(sent[Len(sent)].args[1])
                     \o F_string(sent[Len(sent)].args[2])
                     \o <<sent[Len(sent)].args[3]>>
    /\ (mode = "link" /\ nframes = 0) =>
          /\ \A i \in 1..Len(UpcallArgs(cli, "world_info")) :
                UpcallArgs(cli, "world_info")[i] = <<T_World, T_Hi>>
          /\ cli.factory_calls > 0 => cli.alive

\* the absolute locations the server endpoint sent while alive (move_entity
\* and set_location write the same frame), as the client endpoint's handler
\* is to receive them
LocationsSent ==
    [i \in 1..Len(SelectSeq(sent, LAMBDA c : c.who = "server" /\ ~c.dead
                       /\ c.name \in {"move_entity", "set_location"})) |->
        SelectSeq(sent, LAMBDA c : c.who = "server" /\ ~c.dead
                       /\ c.name \in {"move_entity", "set_location"})[i].args]

\* C11: the move_entity upcalls of the client endpoint are the absolute
\* locations the server endpoint sent, in order and with the same values
\* (negative axes included), in either location width, one upcall for
\* each frame, and the frames that follow are decoded from their first byte.
C11_LocationRoundTrip ==
    /\ IsPrefix(UpcallArgs(cli, "move_entity"), LocationsSent)
    /\ Idle(cli) => UpcallArgs(cli, "move_entity") = LocationsSent

\* the last step was the application's call name on the server endpoint,
\* alive at the time
LiveServerCall(name) ==
    ev.kind = "call" /\ ev.who = "server" /\ ev.name = name /\ ~ev.dead

\* C12: hold_this(block, force) on a live session writes the frame
\* (0x14, block, force) when HeldBlock is among the session's extensions, and
\* nothing when it is not, whatever the other extensions are.
C12_HoldThisIffHeldBlock ==
    LiveServerCall("hold_this") =>
        IF HeldBlock \in srv.extensions
        THEN LastWritten(srv) =
                 <<OPCODE_HOLD_THIS, sent[Len(sent)].args[1], sent[Len(sent)].args[2]>>
        ELSE ev.wrote = 0

\* C13: remove_player(id) on a live session writes the frame (0x18, id) when
\* ExtPlayerList is among the session's extensions, and nothing when it is
\* not.
C13_RemovePlayerIffPlayerList ==
    LiveServerCall("remove_player") =>
        IF ExtPlayerList2 \in srv.extensions
        THEN LastWritten(srv) =
                 <<OPCODE_REMOVE_PLAYER>> \o SignedBE(sent[Len(sent)].args[1], 2)
        ELSE ev.wrote = 0

\* The session s has decoded a hello and holds the values of a session that
\* is not in CPE mode.  The server endpoint sets vendor when the hello's last
\* byte is 0x42, so these are the sessions whose hello carried another byte
\* and that no ext-info or ext-entry has touched since.
NonCPE(s) ==
    /\ s.username # None
    /\ s.vendor = NO_VENDOR
    /\ s.ext_left = 0
    /\ s.extensions = {}
    /\ s.location_struct = "3h2B"
    /\ s.text_encoding = "ascii"

\* the last step of the server endpoint's loop wrote an ext-info frame: it
\* wrote more than a disconnect frame, or what it wrote starts with ext-info
WroteExtInfo ==
    /\ ev.kind = "step"
    /\ ev.who = "server"
    /\ ev.wrote > 0
    /\ (ev.wrote > STRING_SIZE + 1 \/ LastWritten(srv)[1] = OPCODE_EXT_INFO)

\* C14: a server session whose hello carried a last byte other than 0x42
\* never enters CPE mode: whatever comes in later, it keeps vendor,
\* ext_left, extensions, location width and encoding as they are, and
\* writes no ext-info.
C14_NonCPEStays == [][NonCPE(srv) => (NonCPE(srv') /\ ~WroteExtInfo')]_vars

\* the step from this state to the next is a turn of the loop of the
\* endpoint who that decoded a whole frame of the given opcode and size
Decodes(who, opcode, size) ==
    /\ ev'.kind = "step"
    /\ ev'.who = who
    /\ Len(ev'.read) = size
    /\ ev'.read[1] = opcode

\* the size of an ext-entry frame: opcode, name, version
ExtEntrySize == STRING_SIZE + 5

\* C15: decoding an ext-entry frame while ext_left is zero closes the
\* session, on either endpoint: before any ext-info, after a countdown that
\* completed, or after an ext-info that announced no entry.
C15_OverflowEntryCloses ==
    [][ /\ (srv.ext_left = 0 /\ Decodes("server", OPCODE_EXT_ENTRY, ExtEntrySize))
              => ~srv'.alive
        /\ (cli.ext_left = 0 /\ Decodes("client", OPCODE_EXT_ENTRY, ExtEntrySize))
              => ~cli'.alive ]_vars

\* C15 happens: after a countdown that completed (received_extensions has
\* fired), the server endpoint decoded one more ext-entry (ext_left is 0
\* less 1) and is closed
C15_Witness ==
    /\ ev.kind = "step"
    /\ ev.who = "server"
    /\ Len(ev.read) = ExtEntrySize
    /\ ev.read[1] = OPCODE_EXT_ENTRY
    /\ srv.received > 0
    /\ srv.ext_left = -1
    /\ ~srv.alive

\* the last step was a turn of the loop of the endpoint who that read an
\* opcode its table has no decoder for
UnknownOpcodeStep(who) ==
    /\ ev.kind = "step"
    /\ ev.who = who
    /\ ev.read # <<>>
    /\ ev.read[1] \notin AcceptedOpcodes(who)

\* what C16 asks of the session s of the endpoint who after such a step
ClosedUnread(who, s) ==
    UnknownOpcodeStep(who) =>
        /\ Len(ev.read) = 1
        /\ ~s.alive
        /\ s.loop = "exited"
        /\ ~can_step(who, s)

\* C16: a turn of the loop that reads an opcode with no decoder in the
\* role's table closes the session, reads nothing after the opcode byte,
\* and ends the loop, so that no further frame is dispatched.
C16_UnknownOpcodeCloses ==
    ClosedUnread("server", srv) /\ ClosedUnread("client", cli)

\* C16 happens: the server endpoint read the opcode of set-block, closed,
\* and the payload is still in the reader
C16_Witness ==
    /\ UnknownOpcodeStep("server")
    /\ ev.read = <<OPCODE_SET_BLOCK>>
    /\ ~srv.alive
    /\ Len(srv.reader.data) = 7

\* the size of an ext-info frame: opcode, vendor, count
ExtInfoSize == STRING_SIZE + 3

\* what C17 asks of a step that takes the session of the endpoint who from
\* s to t: the countdown is not negative, an ext-info sets it to the count
\* announced, and an ext-entry within the count takes one off
CountsDown(who, s, t) ==
    /\ t.ext_left >= 0
    /\ Decodes(who, OPCODE_EXT_INFO, ExtInfoSize)
          => t.ext_left = FromSignedBE(SubSeq(ev'.read, STRING_SIZE + 2, ExtInfoSize))
    /\ (s.ext_left > 0 /\ Decodes(who, OPCODE_EXT_ENTRY, ExtEntrySize))
          => t.ext_left = s.ext_left - 1

\* C17: ext_left is never negative, whatever frames come in; it is the count
\* of the peer's ext-info less the ext-entry frames decoded since.
C17_ExtLeftCountsDown ==
    [][CountsDown("server", srv, srv') /\ CountsDown("client", cli, cli')]_vars

\* C18: while entries the peer announced are still to come and no
\* countdown has completed, the session's extension set is empty.
C18_EmptyUntilCountdownEnds ==
    \A s \in Sessions :
        (s.ext_left > 0 /\ s.received = 0) => s.extensions = {}

\* the extensions an endpoint advertises, as a set
Advertised(role) ==
    {supported_extensions(role)[i] : i \in 1..Len(supported_extensions(role))}

\* C19: every extension in a live session's set is one the endpoint itself
\* advertises, whatever entries the peer sends.
C19_OnlyMutualExtensions ==
    /\ srv.alive => srv.extensions \subseteq Advertised("server")
    /\ cli.alive => cli.extensions \subseteq Advertised("client")

\* the size of a hello frame: opcode, version, two strings, last byte
HelloSize == 2 * STRING_SIZE + 3

\* the step from this state to the next is a turn of the server endpoint's
\* loop that decoded, on a live session, a version-7 hello carrying 0x42
DecodesCPEHello ==
    /\ srv.alive
    /\ Decodes("server", OPCODE_HELLO, HelloSize)
    /\ ev'.read[2] = PROTOCOL_VERSION
    /\ ev'.read[HelloSize] = CPE_MAGIC

\* what the server endpoint wrote in the step from this state to the next
WrittenNow == SubSeq(srv'.writer, Len(srv.writer) + 1, Len(srv'.writer))

\* the server's hello frame is on the wire before its ext-info: the
\* application had world_info write it earlier, or the step writes it first
HelloBeforeExtInfo ==
    \/ LiveCalls("server", "world_info") # <<>>
    \/ (WrittenNow # <<>> /\ WrittenNow[1] = OPCODE_HELLO)

\* the bytes w are one ext-info frame followed by exactly as many ext-entry
\* frames as its count field announces, one per advertised extension
ExtInfoThenEntries(w) ==
    /\ Len(w) >= ExtInfoSize
    /\ w[1] = OPCODE_EXT_INFO
    /\ LET count == FromSignedBE(SubSeq(w, STRING_SIZE + 2, ExtInfoSize))
       IN  /\ count = Len(supported_extensions("server"))
           /\ Len(w) = ExtInfoSize + count * ExtEntrySize
           /\ \A i \in 1..count :
                 w[ExtInfoSize + (i - 1) * ExtEntrySize + 1] = OPCODE_EXT_ENTRY

\* the ext-info and entries the server writes in answer to the hello
AnswersWithExtensions ==
    DecodesCPEHello =>
        /\ srv'.received = srv.received
        /\ \E k \in 0..Len(WrittenNow) :
              ExtInfoThenEntries(SubSeq(WrittenNow, k + 1, Len(WrittenNow)))

\* received_extensions fires when the last announced entry is decoded,
\* and on no earlier entry
FiresOnLastEntry ==
    Decodes("server", OPCODE_EXT_ENTRY, ExtEntrySize) =>
        (srv'.received = srv.received + 1 <=> srv.ext_left = 1)

\* C20: when the client hello carries 0x42 the server's hello frame is
\* written before its ext-info, the ext-info is followed by exactly as many
\* ext-entry frames as its count announces, and received_extensions fires
\* exactly when the last announced client entry has been decoded.
C20_HandshakeOrder ==
    [][/\ DecodesCPEHello => HelloBeforeExtInfo
       /\ AnswersWithExtensions
       /\ FiresOnLastEntry]_vars

\* the sizes of a level-chunk frame (opcode, length, chunk, percentage) and
\* of a finish-level frame (opcode, three shorts)
LevelChunkSize == CHUNK_SIZE + 4
FinishLevelSize == StructSize("3H") + 1

\* the level reassembly buffer of the client endpoint holds no byte
BufferEmpty(s) == s.level_buffer = None \/ s.level_buffer = Some(<<>>)

\* a level-chunk frame decoded while not receiving changes neither the
\* buffer nor the upcalls; a finish-level frame decoded while not receiving
\* delivers nothing; after any finish-level frame the buffer is cleared and
\* the flag is false
LevelFramesStep ==
    /\ (~cli.receiving_level /\ Decodes("client", OPCODE_LEVEL_CHUNK, LevelChunkSize))
          => (cli'.level_buffer = cli.level_buffer /\ cli'.upcalls = cli.upcalls)
    /\ (~cli.receiving_level /\ Decodes("client", OPCODE_FINISH_LEVEL, FinishLevelSize))
          => cli'.upcalls = cli.upcalls
    /\ Decodes("client", OPCODE_FINISH_LEVEL, FinishLevelSize)
          => (BufferEmpty(cli') /\ ~cli'.receiving_level)

\* C21: on the client endpoint the level buffer is non-empty only while the
\* receiving flag is set; level-chunk and finish-level frames decoded while
\* not receiving deliver nothing and leave the buffer alone, and after a
\* finish-level frame the buffer is cleared and the flag is false.
C21_LevelBufferOnlyWhileReceiving ==
    [][/\ ~BufferEmpty(cli) => cli.receiving_level
       /\ ~BufferEmpty(cli') => cli'.receiving_level
       /\ LevelFramesStep]_vars

\* C22: every upcall a decoder makes is made on an installed handler: no
\* turn of either endpoint's loop ends with the AttributeError of an upcall
\* on a handler that is still None.
C22_UpcallsOnInstalledHandler ==
    ev.kind = "step" => ev.raised # "AttributeError"

\* the count field of the ext-info frame decoded in the step from this
\* state to the next
AnnouncedCount == FromSignedBE(SubSeq(ev'.read, STRING_SIZE + 2, ExtInfoSize))

\* on the live session s of endpoint who, which the step leaves as t: an
\* ext-info that announces no entry completes the countdown at once, one
\* that announces entries does not, and of the announced entries the last
\* one, and only the last one, completes it
CountdownCompletes(who, s, t) ==
    /\ (s.alive /\ Decodes(who, OPCODE_EXT_INFO, ExtInfoSize) /\ AnnouncedCount = 0)
          => t.received = s.received + 1
    /\ (s.alive /\ Decodes(who, OPCODE_EXT_INFO, ExtInfoSize) /\ AnnouncedCount > 0)
          => t.received = s.received
    /\ (s.alive /\ s.ext_left > 0 /\ Decodes(who, OPCODE_EXT_ENTRY, ExtEntrySize))
          => (t.received = s.received + 1 <=> s.ext_left = 1)

\* C23: the CPE countdown completes for every announced count, zero
\* included: after an ext-info with count c and exactly c ext-entry frames,
\* received_extensions has fired exactly once on the receiving session.
C23_CountdownCompletes ==
    [][CountdownCompletes("server", srv, srv')
       /\ CountdownCompletes("client", cli, cli')]_vars

\* received_extensions has fired on both endpoints
BothReceived == srv.received >= 1 /\ cli.received >= 1

\* the CPE handshake has completed on both sides: received_extensions
\* fired once on each, no entry is outstanding, neither side is closed
HandshakeDone ==
    /\ srv.received = 1 /\ cli.received = 1
    /\ srv.ext_left = 0 /\ cli.ext_left = 0
    /\ srv.alive /\ cli.alive

\* both endpoints use the same location width and the same text encoding
SameFormats ==
    /\ srv.location_struct = cli.location_struct
    /\ srv.text_encoding = cli.text_encoding

\* C24: once the client endpoint of a linked pair has sent its hello, the
\* CPE handshake eventually completes on both sides with neither side
\* closed, and from then on both endpoints use the same location width and
\* the same text encoding.
C24_HandshakeCompletes ==
    /\ (sent # <<>>) ~> BothReceived
    /\ [][(~BothReceived /\ BothReceived') => HandshakeDone']_vars
    /\ [](BothReceived => SameFormats)

\* the handshake has completed and both endpoints have switched to the
\* wide locations and the cp437 encoding that both advertise
C24_Witness ==
    /\ HandshakeDone
    /\ srv.handler # 0
    /\ srv.location_struct = "3i2B" /\ cli.location_struct = "3i2B"
    /\ srv.text_encoding = "cp437" /\ cli.text_encoding = "cp437"

\* the step from this state to the next is a turn of the server endpoint's
\* loop that decoded a hello it rejects: a repeated one, or one whose
\* version is not 7
DecodesRejectedHello ==
    /\ srv.alive
    /\ Decodes("server", OPCODE_HELLO, HelloSize)
    /\ (srv.username # None \/ ev'.read[2] # PROTOCOL_VERSION)

\* C25: a hello the server endpoint rejects closes the session and changes
\* nothing else: username, token, vendor, handler and the extension set
\* keep their values and the handler factory is not invoked.
C25_RejectedHelloChangesNothing ==
    [][DecodesRejectedHello =>
          /\ ~srv'.alive
          /\ srv'.username = srv.username
          /\ srv'.token = srv.token
          /\ srv'.vendor = srv.vendor
          /\ srv'.handler = srv.handler
          /\ srv'.extensions = srv.extensions
          /\ srv'.factory_calls = srv.factory_calls]_vars

=============================================================================
